---- MODULE Spec2Model ----
(***************************************************************************)
(* StepFile_ReadData: the recorder that the flex/bison STEP parser drives. *)
(* The state is the private fields of the class (StepFile_ReadData.hxx,    *)
(* lines 241-264) plus the contents of its page pools.  Only the class     *)
(* declaration and its documentation are available; the bodies of the      *)
(* methods follow the documentation of the header and, where the header is *)
(* silent, the design description of the component.                        *)
(*                                                                         *)
(* Conventions: 0 is the null pointer for records, arguments and error     *)
(* pages.  A text is a sequence of bytes; a text slice is a record         *)
(* [page, off, len] into the characters pages, NoText is the absent text.  *)
(* myModePrint and the printing methods only write to the console and are  *)
(* left out.                                                               *)
(***************************************************************************)
EXTENDS Integers, Sequences, FiniteSets, TLC

\* ------------------------------------------------------------------ bounds
\* Page capacities, and the number of calls of each kind the caller makes on
\* one stream.  Every specification below runs all the operations; each has
\* its own budget (the variable lim), wide for the part it is about and Few
\* for the rest.
Few        == 1     \* budget of the calls a specification is not about
SkipRecs   == 3     \* SpecSkip: records created
SkipArgs   == 2     \* SpecSkip: arguments created
ReadRecs   == 3     \* SpecRead: records created
ScopeDepth == 2     \* SpecScope: scopes open at a time
ScopeRecs  == 3     \* SpecScope: records created
CountRecs  == 2     \* SpecCount: records created
CountArgs  == 3     \* SpecCount: arguments created
PagesCalls == 3     \* SpecPages: texts, records, arguments, messages created
MaxCharCap == 2     \* characters-page capacity
MaxRecCap  == 2     \* records-page capacity
MaxArgCap  == 2     \* arguments-page capacity
MaxRecs    == 3     \* Spec: records created
ArgsRecs   == 2     \* SpecArgs: records created
ArgsArgs   == 4     \* SpecArgs: arguments created
ArgsTexts  == 2     \* SpecArgs: CreateNewText calls
ErrsErrs   == 3     \* SpecErrs: error messages recorded
TextTexts  == 3     \* SpecText: CreateNewText calls
TextLen    == 3     \* SpecText: longest text

\* ------------------------------------------------------------------ inputs
Bytes == { "#", "A" }
\* the texts of at most n bytes
TextsUpTo(n) == UNION { [1..k -> Bytes] : k \in 0..n }

\* diagnostics the recorder itself records on a call out of order
ErrNoScope  == "scope: end of scope without scope"
ErrNoRecord == "record: no current record"
ErrPending  == "record: a record is already started"
ErrNoText   == "text: no text value"

NoText == [page |-> 0, off |-> 0, len |-> 0]

VARIABLES
  myMaxChar, myMaxRec, myMaxArg,          \* page capacities
  myNbRec, myNbHead, myNbPar,             \* counters
  myYaRec, myNumSub, myErrorArg,
  myResText, myCurrType, mySubArg, myTypeArg,
  myCurrArg, myFirstRec, myCurRec, myLastRec,
  myCurScope,
  myFirstError, myCurError,
  myOneRecPage, myOneCharPage, myOneArgPage,
  recs, args, errs,                       \* contents of the pools
  theCheck,                               \* the fails of the caller's Interface_Check
  phase,                                  \* the caller: "build", "read", "released"
  lim,                                    \* the caller's budget of calls
  hist                                    \* history of the calls (see HistInit)

prog == << myMaxChar, myMaxRec, myMaxArg, myNbRec, myNbHead, myNbPar,
           myYaRec, myNumSub, myErrorArg, myResText, myCurrType, mySubArg,
           myTypeArg, myCurrArg, myFirstRec, myCurRec, myLastRec, myCurScope,
           myFirstError, myCurError, myOneRecPage, myOneCharPage, myOneArgPage,
           recs, args, errs >>

vars == << prog, theCheck, phase, lim, hist >>

\* ----------------------------------------------------------------- helpers
Max(a, b) == IF a >= b THEN a ELSE b

Last(s) == s[Len(s)]

Front(s) == SubSeq(s, 1, Len(s) - 1)

\* the bytes of a slice, read from the characters pages
ReadText(pages, s) ==
  IF s.page = 0 \/ s.page > Len(pages) THEN << >>
  ELSE SubSeq(pages[s.page].data, s.off + 1, s.off + s.len)

\* the records from theFirst to theLast, following myNext
RECURSIVE ListFrom(_, _, _, _)
ListFrom(rs, theRec, theLast, fuel) ==
  IF theRec = 0 \/ fuel = 0 THEN << >>
  ELSE IF theRec = theLast THEN << theRec >>
  ELSE << theRec >> \o ListFrom(rs, rs[theRec].myNext, theLast, fuel - 1)

FlatList == ListFrom(recs, myFirstRec, myLastRec, Len(recs) + 1)

\* the arguments of a chain, following myNext from theArg
RECURSIVE ChainFrom(_, _, _)
ChainFrom(as, theArg, fuel) ==
  IF theArg = 0 \/ fuel = 0 THEN << >>
  ELSE << theArg >> \o ChainFrom(as, as[theArg].myNext, fuel - 1)

ArgChain(rs, as, theRec) == ChainFrom(as, rs[theRec].myFirst, Len(as))

\* the error pages from myFirstError, following the next page
RECURSIVE ErrorsFrom(_, _, _)
ErrorsFrom(es, thePage, fuel) ==
  IF thePage = 0 \/ fuel = 0 THEN << >>
  ELSE << es[thePage].myText >> \o ErrorsFrom(es, es[thePage].myNext, fuel - 1)

\* the slot behind the last one is taken, whether the page has room or not
NewSlotOverrun(thePool, theMax) ==
  [myPage |-> Max(thePool.myPage, 1), myUsed |-> thePool.myUsed + 1]

\* ------------------------------------------------------------- page pools
\* A pool of fixed-capacity pages: myPage counts the pages, myUsed is the
\* cursor of the current one.  Taking a slot switches to a new page first
\* when the current page is full (or when there is no page yet).
NewSlot(thePool, theMax) ==
  IF thePool.myPage = 0 \/ thePool.myUsed >= theMax
  THEN [myPage |-> thePool.myPage + 1, myUsed |-> 1]
  ELSE [myPage |-> thePool.myPage, myUsed |-> thePool.myUsed + 1]

\* the text is copied into the current page as far as there is room, without
\* a new page
RecordNewTextOverrun(pages, theText, theMax) ==
  LET n == Len(pages)
      room == IF n = 0 THEN 0 ELSE pages[n].cap - Len(pages[n].data)
      kept == IF Len(theText) <= room THEN theText ELSE SubSeq(theText, 1, room)
  IN IF n = 0
     THEN [pages |-> << [cap |-> Max(theMax, Len(theText)), data |-> theText] >>,
           text  |-> [page |-> 1, off |-> 0, len |-> Len(theText)]]
     ELSE [pages |-> [pages EXCEPT ![n].data = @ \o kept],
           text  |-> [page |-> n, off |-> Len(pages[n].data), len |-> Len(theText)]]

\* RecordNewText: copies theText into the current characters page; when it
\* does not fit in what is left of the page it goes whole into a new page,
\* which is made large enough to hold it.  Returns the pages and the slice.
RecordNewText(pages, theText, theMax) ==
  LET n == Len(pages)
  IN IF n = 0 \/ Len(pages[n].data) + Len(theText) > pages[n].cap
     THEN [pages |-> Append(pages, [cap  |-> Max(theMax, Len(theText)),
                                    data |-> theText]),
           text  |-> [page |-> n + 1, off |-> 0, len |-> Len(theText)]]
     ELSE [pages |-> [pages EXCEPT ![n].data = @ \o theText],
           text  |-> [page |-> n, off |-> Len(pages[n].data), len |-> Len(theText)]]

\* GetResultText: the current text value
GetResultText == myResText

\* CreateNewRecord: a new empty record in the records pool
EmptyRecord ==
  [myIdent |-> NoText, myType |-> NoText, myFirst |-> 0, myLast |-> 0, myNext |-> 0]

\* ------------------------------------------------------------- error pages
\* AddError: a new errors page holding the message, chained after the
\* current one; the first message also becomes myFirstError.
ErrorPagesUnchained(es, theFirst, theCur, theMessage) ==
  [errs  |-> Append(es, [myText |-> theMessage, myNext |-> 0]),
   first |-> IF theFirst = 0 THEN Len(es) + 1 ELSE theFirst,
   cur   |-> IF theCur = 0 THEN Len(es) + 1 ELSE theCur]

ErrorPages(es, theFirst, theCur, theMessage) ==
  LET n == Len(es) + 1
      linked == IF theCur = 0 THEN es ELSE [es EXCEPT ![theCur].myNext = n]
  IN [errs  |-> Append(linked, [myText |-> theMessage, myNext |-> 0]),
      first |-> IF theFirst = 0 THEN n ELSE theFirst,
      cur   |-> n]

\* the message of the first errors page instead of the current one
GetFirstError == IF myFirstError = 0 THEN << >> ELSE << errs[myFirstError].myText >>

\* GetLastError: the message of the current errors page, none when empty
GetLastError == IF myCurError = 0 THEN << >> ELSE << errs[myCurError].myText >>

\* the messages ErrorHandle passes to the checker, first page to last
ErrorHandleFails == ErrorsFrom(errs, myFirstError, Len(errs))

\* ------------------------------------------------------------------ history
\* hist records what the caller did, to state the properties against:
\*   wf       no call so far was out of the order the protocol requires
\*            (a call the recorder answers with a diagnostic, an argument
\*            of a sub-list made by the caller, an error token right behind
\*            an argument with no separator, a record added twice, a scope
\*            closed on another record than the current one)
\*   nFinal   RecordNewEntity calls that added a record
\*   nBody    those of them made after FinalOfHead
\*   head     FinalOfHead was called
\*   pushed   per record, the (kind, bytes) of the arguments created on it
\*            and the call that created each
\*   spawner  per record, the record whose argument list it was opened in
\*   interned every text stored, with the slice returned for it
\*   said     the messages recorded, in order
\*   reading  the record GetRecordDescription described last
\*   read     what GetArgDescription returned for it since
\*   torn     the recorder was released in full and is used again
\*   calls    the caller's position in lim.script, when it follows one
\*   open     the scopes opened and not closed since, oldest first: the
\*            call that opened each and the current record at that call
\*   unmatched AddNewScope calls less the FinalOfScope calls that ended a
\*            scope after them
\*   who      the traversal of the caller that makes the read-back calls
\*   step     per traversal of lim.readers, the call it makes next when it
\*            reads record by record: "record" (GetRecordDescription),
\*            "next" (GetArgDescription or NextRecord); "off" before its
\*            GetFileNbR, after a call out of that order, and once it was
\*            described more records than there are
\*   seen     per traversal, the records described to it since GetFileNbR
\*            (none when it is "off")
\*   mixed    per traversal, another one made a call since its GetFileNbR
HistInit ==
  [wf |-> TRUE, nFinal |-> 0, nBody |-> 0, head |-> FALSE, pushed |-> << >>,
   spawner |-> << >>, interned |-> << >>, said |-> << >>, reading |-> 0,
   read |-> << >>, torn |-> FALSE, calls |-> 0,
   open |-> << >>, unmatched |-> 0, who |-> "a",
   step |-> [t \in lim.readers |-> "off"],
   seen |-> [t \in lim.readers |-> << >>],
   mixed |-> [t \in lim.readers |-> FALSE]]

\* the history of the traversals after the read-back call theCall, made by
\* the traversal h.who on the current record
Traversal(h, theCall) ==
  IF h.who \notin lim.readers THEN h
  ELSE
    LET t == h.who
        s == h.step[t]
        aStep == CASE theCall = "GetFileNbR" -> "record"
                   [] theCall = "GetRecordDescription" ->
                        IF s = "record" /\ Len(h.seen[t]) <= Len(recs)
                        THEN "next" ELSE "off"
                   [] theCall = "GetArgDescription" ->
                        IF s = "next" THEN "next" ELSE "off"
                   [] OTHER -> IF s = "next" THEN "record" ELSE "off"
        aSeen == CASE theCall = "GetFileNbR" \/ aStep = "off" -> << >>
                   [] theCall = "GetRecordDescription" ->
                        Append(h.seen[t], myCurRec)
                   [] OTHER -> h.seen[t]
    IN [h EXCEPT !.step[t] = aStep,
                 !.seen[t] = aSeen,
                 !.mixed = [u \in lim.readers |->
                              IF u = t
                              THEN theCall # "GetFileNbR" /\ aStep # "off" /\ @[u]
                              ELSE @[u] \/ h.step[u] # "off"]]

\* one more call of the script made
Tick(h) == [h EXCEPT !.calls = IF lim.script = << >> THEN 0 ELSE @ + 1]

errVars  == << myFirstError, myCurError, errs >>
capVars  == << myMaxChar, myMaxRec, myMaxArg, lim >>
recVars  == << myFirstRec, myCurRec, myLastRec, myOneRecPage, recs >>
argVars  == << myOneArgPage, args, myNbPar >>
textVars == << myOneCharPage, myResText >>

\* the message is not kept
RecordErrorDropped(theMessage) == UNCHANGED errVars

RecordError(theMessage) ==
  LET e == ErrorPages(errs, myFirstError, myCurError, theMessage)
  IN /\ errs' = e.errs
     /\ myFirstError' = e.first
     /\ myCurError' = e.cur

\* the diagnostic is recorded and the record being built is dropped
DiagnoseAndReset(theMessage) ==
  /\ Len(errs) < lim.errs
  /\ RecordError(theMessage)
  /\ myCurRec' = 0
  /\ myYaRec' = 0
  /\ hist' = Tick([hist EXCEPT !.wf = FALSE, !.said = Append(@, theMessage)])
  /\ UNCHANGED << capVars, myFirstRec, myLastRec, myOneRecPage, recs, argVars,
                  textVars, myNbRec, myNbHead, myNumSub, myErrorArg,
                  myCurrType, mySubArg, myTypeArg, myCurrArg, myCurScope,
                  theCheck, phase >>

\* a call out of order: the recorder records a diagnostic and changes
\* nothing else
Diagnose(theMessage) ==
  /\ Len(errs) < lim.errs
  /\ RecordError(theMessage)
  /\ hist' = Tick([hist EXCEPT !.wf = FALSE, !.said = Append(@, theMessage)])
  /\ UNCHANGED << capVars, recVars, argVars, textVars, myNbRec, myNbHead,
                  myYaRec, myNumSub, myErrorArg, myCurrType, mySubArg,
                  myTypeArg, myCurrArg, myCurScope, theCheck, phase >>

\* ---------------------------------------------------------------- Init
InitWith(theLim, theMaxChar, theMaxRec, theMaxArg) ==
  /\ lim = theLim
  /\ myMaxChar = theMaxChar
  /\ myMaxRec = theMaxRec
  /\ myMaxArg = theMaxArg
  /\ myNbRec = 0 /\ myNbHead = 0 /\ myNbPar = 0
  /\ myYaRec = 0 /\ myNumSub = 0 /\ myErrorArg = FALSE
  /\ myResText = NoText /\ myCurrType = NoText /\ mySubArg = NoText
  /\ myTypeArg = "Text"
  /\ myCurrArg = 0 /\ myFirstRec = 0 /\ myCurRec = 0 /\ myLastRec = 0
  /\ myCurScope = << >>
  /\ myFirstError = 0 /\ myCurError = 0
  /\ myOneRecPage = [myPage |-> 0, myUsed |-> 0]
  /\ myOneArgPage = [myPage |-> 0, myUsed |-> 0]
  /\ myOneCharPage = << >>
  /\ recs = << >> /\ args = << >> /\ errs = << >>
  /\ theCheck = << >>
  /\ phase = "build"
  /\ hist = HistInit

\* Spec: the graph of records (nesting, counters, scopes)
Init ==
  InitWith([texts |-> Few, recs |-> MaxRecs, args |-> MaxRecs, errs |-> Few,
            scopes |-> Few, lexemes |-> { <<"#">> }, kinds |-> { "Ident" },
            messages |-> { "m1" }, script |-> << >>, readers |-> { }],
           MaxCharCap, MaxRecCap, MaxArgCap)

\* SpecAll: every operation, each within a budget of Few
InitAll ==
  InitWith([texts |-> Few, recs |-> Few, args |-> Few, errs |-> Few,
            scopes |-> Few, lexemes |-> { <<"#">> }, kinds |-> { "Ident" },
            messages |-> { "m1" }, script |-> << >>, readers |-> { }],
           MaxCharCap, MaxRecCap, MaxArgCap)

\* SpecArgs: the arguments of the records
InitArgs ==
  InitWith([texts |-> ArgsTexts, recs |-> ArgsRecs, args |-> ArgsArgs,
            errs |-> Few, scopes |-> Few, lexemes |-> { <<"#">>, <<"A">> },
            kinds |-> { "Ident" },
            messages |-> { "m1" }, script |-> << >>, readers |-> { }],
           MaxCharCap, MaxRecCap, MaxArgCap)

\* SpecErrs: the error messages
InitErrs ==
  InitWith([texts |-> Few, recs |-> Few, args |-> Few, errs |-> ErrsErrs,
            scopes |-> Few, lexemes |-> { <<"#">> }, kinds |-> { "Ident" },
            messages |-> { "m1", "m2" }, script |-> << >>, readers |-> { }],
           MaxCharCap, MaxRecCap, MaxArgCap)

\* SpecText: the text values, for every capacity of the characters page
InitText ==
  \E c \in 1..MaxCharCap :
    InitWith([texts |-> TextTexts, recs |-> Few, args |-> Few, errs |-> Few,
              scopes |-> Few, lexemes |-> TextsUpTo(TextLen),
              kinds |-> { "Ident" }, messages |-> { "m1" }, script |-> << >>, readers |-> { }],
             c, MaxRecCap, MaxArgCap)

\* SpecSkip: records abandoned, error tokens and calls out of order, next to
\* records that are in the list
InitSkip ==
  InitWith([texts |-> Few, recs |-> SkipRecs, args |-> SkipArgs, errs |-> Few,
            scopes |-> Few, lexemes |-> { <<"#">> }, kinds |-> { "Ident" },
            messages |-> { "m1" }, script |-> << >>, readers |-> { }],
           MaxCharCap, MaxRecCap, MaxArgCap)

\* SpecRead: the records are read back by two traversals of the caller
InitRead ==
  InitWith([texts |-> Few, recs |-> ReadRecs, args |-> Few, errs |-> Few,
            scopes |-> Few, lexemes |-> { <<"#">> }, kinds |-> { "Ident" },
            messages |-> { "m1" }, script |-> << >>, readers |-> { "a", "b" }],
           MaxCharCap, MaxRecCap, MaxArgCap)

\* SpecScope: scopes inside scopes, with sub-records
InitScope ==
  InitWith([texts |-> Few, recs |-> ScopeRecs, args |-> Few, errs |-> Few,
            scopes |-> ScopeDepth, lexemes |-> { <<"#">> }, kinds |-> { "Ident" },
            messages |-> { "m1" }, script |-> << >>, readers |-> { }],
           MaxCharCap, MaxRecCap, MaxArgCap)

\* SpecCount: the number of arguments under every call that builds records
InitCount ==
  InitWith([texts |-> Few, recs |-> CountRecs, args |-> CountArgs, errs |-> Few,
            scopes |-> Few, lexemes |-> { <<"#">> }, kinds |-> { "Ident" },
            messages |-> { "m1" }, script |-> << >>, readers |-> { }],
           MaxCharCap, MaxRecCap, MaxArgCap)

\* SpecPages: the pages of characters, records, arguments and errors, with
\* more texts, records and arguments than a page holds
InitPages ==
  InitWith([texts |-> PagesCalls, recs |-> PagesCalls, args |-> PagesCalls,
            errs |-> PagesCalls, scopes |-> Few,
            lexemes |-> { <<"#">> }, kinds |-> { "Ident" },
            messages |-> { "m1" }, script |-> << >>, readers |-> { }],
           MaxCharCap, MaxRecCap, MaxArgCap)

\* SpecScenario: the parsing example of the class documentation, record
\* "#123=ADVANCED_FACE((#124),#125,#125)", for all page capacities.  The
\* caller makes the calls of the script in order, then reads the result.
Text123 == << "#", "1", "2", "3" >>

Text124 == << "#", "1", "2", "4" >>

Text125 == << "#", "1", "2", "5" >>

TextAdvancedFace ==
  << "A", "D", "V", "A", "N", "C", "E", "D", "_", "F", "A", "C", "E" >>

Call(theOp, theArg) == [op |-> theOp, arg |-> theArg]

AdvancedFaceScript ==
  << Call("CreateNewText", Text123), Call("RecordIdent", << >>),
     Call("CreateNewText", TextAdvancedFace), Call("RecordType", << >>),
     Call("RecordListStart", << >>),
     Call("RecordListStart", << >>),
     Call("CreateNewText", Text124), Call("SetTypeArg", "Ident"),
     Call("CreateNewArg", << >>),
     Call("RecordNewEntity", << >>),
     Call("CreateNewText", Text125), Call("SetTypeArg", "Ident"),
     Call("CreateNewArg", << >>),
     Call("CreateNewText", Text125), Call("SetTypeArg", "Ident"),
     Call("CreateNewArg", << >>),
     Call("RecordNewEntity", << >>) >>

InitScenario ==
  \E c \in 1..MaxCharCap, r \in 1..MaxRecCap, a \in 1..MaxArgCap :
    InitWith([texts |-> Len(AdvancedFaceScript),
              recs |-> Len(AdvancedFaceScript),
              args |-> Len(AdvancedFaceScript),
              errs |-> Len(AdvancedFaceScript), scopes |-> Few,
              lexemes |-> { Text123, Text124, Text125, TextAdvancedFace },
              kinds |-> { "Ident" }, messages |-> { "m1" },
              script |-> AdvancedFaceScript, readers |-> { }],
             c, r, a)

\* ------------------------------------------------------------ text values
\* CreateNewText: stores the text and makes it the current text value
CreateNewText(theNewText) ==
  /\ phase = "build"
  /\ Len(hist.interned) < lim.texts
  /\ LET r == RecordNewText(myOneCharPage, theNewText, myMaxChar)
     IN /\ myOneCharPage' = r.pages
        /\ myResText' = r.text
        /\ hist' = Tick([hist EXCEPT !.interned =
                      Append(@, [text |-> r.text, bytes |-> theNewText])])
  /\ UNCHANGED << capVars, recVars, argVars, errVars, myNbRec, myNbHead,
                  myYaRec, myNumSub, myErrorArg, myCurrType, mySubArg,
                  myTypeArg, myCurrArg, myCurScope, theCheck, phase >>

\* SetTypeArg: the type of the argument to come
SetTypeArg(theArgType) ==
  /\ phase = "build"
  /\ myTypeArg' = theArgType
  /\ hist' = Tick(hist)
  /\ UNCHANGED << capVars, recVars, argVars, textVars, errVars, myNbRec,
                  myNbHead, myYaRec, myNumSub, myErrorArg, myCurrType,
                  mySubArg, myCurrArg, myCurScope, theCheck, phase >>

\* ------------------------------------------------------- records, arguments
\* the new argument goes in front of the chain instead of behind it
NewArgAtHead(rs, as, theRec, theType, theValue) ==
  LET n == Len(as) + 1
  IN [args |-> Append(as, [myType |-> theType, myValue |-> theValue,
                           myNext |-> rs[theRec].myFirst]),
      recs |-> [rs EXCEPT ![theRec].myFirst = n,
                          ![theRec].myLast = IF @ = 0 THEN n ELSE @]]

\* the argument is created but not chained to the record
NewArgUnlinked(rs, as, theRec, theType, theValue) ==
  [args |-> Append(as, [myType |-> theType, myValue |-> theValue, myNext |-> 0]),
   recs |-> rs]

\* a new argument of theRec, chained behind its last argument
NewArg(rs, as, theRec, theType, theValue) ==
  LET n == Len(as) + 1
      old == rs[theRec].myLast
      linked == IF old = 0 THEN as ELSE [as EXCEPT ![old].myNext = n]
  IN [args |-> Append(linked, [myType |-> theType, myValue |-> theValue,
                               myNext |-> 0]),
      recs |-> [rs EXCEPT ![theRec].myFirst = IF @ = 0 THEN n ELSE @,
                          ![theRec].myLast = n]]

\* the record is put in front of the list instead of behind the last one
AddNewRecordAtHead(rs, theFirst, theLast, theNewRecord) ==
  [recs  |-> [rs EXCEPT ![theNewRecord].myNext = theFirst],
   first |-> theNewRecord,
   last  |-> IF theLast = 0 THEN theNewRecord ELSE theLast]

\* the record becomes the last one without the previous last pointing at it
AddNewRecordUnlinked(rs, theFirst, theLast, theNewRecord) ==
  [recs  |-> [rs EXCEPT ![theNewRecord].myNext = 0],
   first |-> IF theFirst = 0 THEN theNewRecord ELSE theFirst,
   last  |-> theNewRecord]

\* AddNewRecord: the record becomes the last of the list
AddNewRecord(rs, theFirst, theLast, theNewRecord) ==
  LET linked == IF theLast = 0 THEN rs
                ELSE [rs EXCEPT ![theLast].myNext = theNewRecord]
  IN [recs  |-> [linked EXCEPT ![theNewRecord].myNext = 0],
      first |-> IF theFirst = 0 THEN theNewRecord ELSE theFirst,
      last  |-> theNewRecord]

\* the identifier of the sub-list number theNum
SubListIdent(theNum) == << "$", ToString(theNum) >>

\* a record is started although one is pending: the identifier of the
\* pending record is overwritten and nothing is recorded
RecordIdentOverwrites ==
  /\ phase = "build"
  /\ IF myResText = NoText THEN Diagnose(ErrNoText)
     ELSE IF myYaRec = 1 /\ myCurRec # 0 THEN
       /\ recs' = [recs EXCEPT ![myCurRec].myIdent = GetResultText]
       /\ hist' = Tick([hist EXCEPT !.wf = FALSE])
       /\ UNCHANGED << capVars, argVars, textVars, errVars, myNbRec, myNbHead,
                       myYaRec, myNumSub, myErrorArg, myCurrType, mySubArg,
                       myTypeArg, myCurrArg, myFirstRec, myCurRec, myLastRec,
                       myOneRecPage, myCurScope, theCheck, phase >>
     ELSE
       /\ Len(recs) < lim.recs
       /\ recs' = Append(recs, [EmptyRecord EXCEPT !.myIdent = GetResultText])
       /\ myOneRecPage' = NewSlot(myOneRecPage, myMaxRec)
       /\ myCurRec' = Len(recs) + 1
       /\ myYaRec' = 1
       /\ myNumSub' = 0
       /\ hist' = Tick([hist EXCEPT !.pushed = Append(@, << >>),
                                    !.spawner = Append(@, 0)])
       /\ UNCHANGED << capVars, argVars, textVars, errVars, myNbRec, myNbHead,
                       myErrorArg, myCurrType, mySubArg, myTypeArg, myCurrArg,
                       myFirstRec, myLastRec, myCurScope, theCheck, phase >>

\* RecordIdent: a new record with the current text value as identifier
RecordIdent ==
  /\ phase = "build"
  /\ IF myYaRec = 1 THEN Diagnose(ErrPending)
     ELSE IF myResText = NoText THEN Diagnose(ErrNoText)
     ELSE
       /\ Len(recs) < lim.recs
       /\ recs' = Append(recs, [EmptyRecord EXCEPT !.myIdent = GetResultText])
       /\ myOneRecPage' = NewSlot(myOneRecPage, myMaxRec)
       /\ myCurRec' = Len(recs) + 1
       /\ myYaRec' = 1
       /\ myNumSub' = 0
       /\ hist' = Tick([hist EXCEPT !.pushed = Append(@, << >>),
                                    !.spawner = Append(@, 0)])
       /\ UNCHANGED << capVars, argVars, textVars, errVars, myNbRec, myNbHead,
                       myErrorArg, myCurrType, mySubArg, myTypeArg, myCurrArg,
                       myFirstRec, myLastRec, myCurScope, theCheck, phase >>

\* RecordTypeText: the current text value becomes the type of the record
RecordTypeText(rs, theRec) == [rs EXCEPT ![theRec].myType = GetResultText]

\* RecordType: the type of the current record
RecordType ==
  /\ phase = "build"
  /\ IF myCurRec = 0 THEN Diagnose(ErrNoRecord)
     ELSE IF myResText = NoText THEN Diagnose(ErrNoText)
     ELSE
       /\ recs' = RecordTypeText(recs, myCurRec)
       /\ myCurrType' = GetResultText
       /\ hist' = Tick(hist)
       /\ UNCHANGED << capVars, argVars, textVars, errVars, myNbRec, myNbHead,
                       myYaRec, myNumSub, myErrorArg, mySubArg, myTypeArg,
                       myCurrArg, myFirstRec, myCurRec, myLastRec, myCurScope,
                       myOneRecPage, theCheck, phase >>

\* the sub-record is left unlinked from the record it was opened in
SubRecordUnlinked(theIdent, theType, theSpawner) ==
  [EmptyRecord EXCEPT !.myIdent = theIdent, !.myType = theType]

\* the record of a sub-list: the record it was opened in is its next
SubRecord(theIdent, theType, theSpawner) ==
  [EmptyRecord EXCEPT !.myIdent = theIdent, !.myType = theType,
                      !.myNext = theSpawner]

\* RecordListStart: the first list of a record is its argument list and
\* creates nothing; a list inside it creates a sub-record "$n" with the
\* type of the last record read, which becomes the current record.  A list
\* starts a new argument position: the error argument mode is reset
RecordListStart ==
  /\ phase = "build"
  /\ IF myCurRec = 0 THEN Diagnose(ErrNoRecord)
     ELSE IF myNumSub = 0 THEN
       /\ myNumSub' = 1
       /\ myErrorArg' = FALSE
       /\ hist' = Tick(hist)
       /\ UNCHANGED << capVars, recVars, argVars, textVars, errVars, myNbRec,
                       myNbHead, myYaRec, myCurrType, mySubArg,
                       myTypeArg, myCurrArg, myCurScope, theCheck, phase >>
     ELSE
       /\ Len(recs) < lim.recs
       /\ LET t == RecordNewText(myOneCharPage, SubListIdent(myNumSub), myMaxChar)
          IN /\ myOneCharPage' = t.pages
             /\ recs' = Append(recs, SubRecord(t.text, myCurrType, myCurRec))
             /\ hist' = Tick([hist EXCEPT
                  !.pushed = Append(@, << >>),
                  !.spawner = Append(@, myCurRec),
                  !.open = Append(@, [by |-> "RecordListStart", rec |-> myCurRec]),
                  !.interned = Append(@, [text |-> t.text,
                                          bytes |-> SubListIdent(myNumSub)])])
       /\ myOneRecPage' = NewSlot(myOneRecPage, myMaxRec)
       /\ myCurScope' = Append(myCurScope, myCurRec)
       /\ myCurRec' = Len(recs) + 1
       /\ myNumSub' = myNumSub + 1
       /\ myErrorArg' = FALSE
       /\ UNCHANGED << capVars, argVars, myResText, errVars, myNbRec, myNbHead,
                       myYaRec, myCurrType, mySubArg, myTypeArg,
                       myCurrArg, myFirstRec, myLastRec, theCheck, phase >>

\* the value of a new argument: the identifier of the last sub-list for a
\* sub-list argument, the current text value otherwise
ArgValue(theType) == IF theType = "Sub" THEN mySubArg ELSE GetResultText

\* CreateNewArg: a new argument of the current record, of the type set by
\* SetTypeArg, behind the arguments the record has
CreateNewArg ==
  /\ phase = "build"
  /\ IF myCurRec = 0 THEN Diagnose(ErrNoRecord)
     ELSE IF ArgValue(myTypeArg) = NoText THEN Diagnose(ErrNoText)
     ELSE
       /\ Len(args) < lim.args
       /\ LET r == NewArg(recs, args, myCurRec, myTypeArg, ArgValue(myTypeArg))
          IN /\ recs' = r.recs
             /\ args' = r.args
       /\ myNbPar' = myNbPar + 1
       /\ myOneArgPage' = NewSlot(myOneArgPage, myMaxArg)
       /\ myErrorArg' = (myErrorArg \/ myTypeArg = "Misc")
       /\ hist' = Tick([hist EXCEPT
            !.wf = @ /\ myTypeArg # "Sub",
            !.pushed[myCurRec] = Append(@,
               [kind |-> myTypeArg, by |-> "CreateNewArg",
                bytes |-> ReadText(myOneCharPage, ArgValue(myTypeArg))])])
       /\ UNCHANGED << capVars, textVars, errVars, myNbRec, myNbHead, myYaRec,
                       myNumSub, myCurrType, mySubArg, myTypeArg, myCurrArg,
                       myFirstRec, myCurRec, myLastRec, myCurScope,
                       myOneRecPage, theCheck, phase >>

\* every error token creates an argument of its own
ErrorArgIsNewAlways(theErrorArg, theLast) == TRUE

\* CreateErrorArg creates the argument when no error argument was created
\* for this position (or the record has no argument to update)
ErrorArgIsNew(theErrorArg, theLast) == ~theErrorArg \/ theLast = 0

\* CreateErrorArg: one argument for a sequence of error tokens; the first
\* creates it, the following ones update its text value
CreateErrorArg ==
  /\ phase = "build"
  /\ IF myCurRec = 0 THEN Diagnose(ErrNoRecord)
     ELSE IF myResText = NoText THEN Diagnose(ErrNoText)
     ELSE IF ErrorArgIsNew(myErrorArg, recs[myCurRec].myLast) THEN
       /\ Len(args) < lim.args
       /\ LET r == NewArg(recs, args, myCurRec, "Misc", GetResultText)
          IN /\ recs' = r.recs
             /\ args' = r.args
       /\ myTypeArg' = "Misc"
       /\ myNbPar' = myNbPar + 1
       /\ myOneArgPage' = NewSlot(myOneArgPage, myMaxArg)
       /\ myErrorArg' = TRUE
       /\ hist' = [hist EXCEPT !.pushed[myCurRec] = Append(@,
               [kind |-> "Misc", by |-> "CreateErrorArg",
                bytes |-> ReadText(myOneCharPage, GetResultText)])]
       /\ UNCHANGED << capVars, textVars, errVars, myNbRec, myNbHead, myYaRec,
                       myNumSub, myCurrType, mySubArg, myCurrArg, myFirstRec,
                       myCurRec, myLastRec, myCurScope, myOneRecPage, theCheck,
                       phase >>
     ELSE
       /\ args' = [args EXCEPT ![recs[myCurRec].myLast].myValue = GetResultText]
       /\ hist' = [hist EXCEPT
            !.wf = @ /\ Last(hist.pushed[myCurRec]).by = "CreateErrorArg"]
       /\ UNCHANGED << capVars, recVars, textVars, errVars, myNbRec, myNbHead,
                       myNbPar, myOneArgPage, myYaRec, myNumSub, myErrorArg,
                       myCurrType, mySubArg, myTypeArg, myCurrArg, myCurScope,
                       theCheck, phase >>

\* the separator is counted as an argument
PrepareNewArgCounts ==
  /\ phase = "build"
  /\ myErrorArg' = FALSE
  /\ myNbPar' = myNbPar + 1
  /\ hist' = Tick(hist)
  /\ UNCHANGED << capVars, recVars, myOneArgPage, args, textVars, errVars,
                  myNbRec, myNbHead, myYaRec, myNumSub, myCurrType, mySubArg,
                  myTypeArg, myCurrArg, myCurScope, theCheck, phase >>

\* PrepareNewArg: called at the separator of two arguments; resets the
\* error argument mode
PrepareNewArg ==
  /\ phase = "build"
  /\ myErrorArg' = FALSE
  /\ hist' = Tick(hist)
  /\ UNCHANGED << capVars, recVars, argVars, textVars, errVars, myNbRec,
                  myNbHead, myYaRec, myNumSub, myCurrType, mySubArg, myTypeArg,
                  myCurrArg, myCurScope, theCheck, phase >>

\* RecordNewEntity: adds the current record to the list; the next record
\* (the one a sub-record was opened in) becomes the current record and
\* gets an argument for the sub-record
RecordNewEntity ==
  /\ phase = "build"
  /\ IF myCurRec = 0 THEN Diagnose(ErrNoRecord)
     ELSE
       LET aNext == recs[myCurRec].myNext
           a == AddNewRecord(recs, myFirstRec, myLastRec, myCurRec)
           r == IF aNext = 0 THEN [recs |-> a.recs, args |-> args]
                ELSE NewArg(a.recs, args, aNext, "Sub", recs[myCurRec].myIdent)
       IN /\ aNext # 0 => Len(args) < lim.args
          /\ recs' = r.recs
          /\ args' = r.args
          /\ myFirstRec' = a.first
          /\ myLastRec' = a.last
          /\ myNbRec' = myNbRec + 1
          /\ myCurRec' = aNext
          /\ myYaRec' = IF aNext = 0 THEN 0 ELSE 1
          /\ myCurScope' = IF myCurScope = << >> THEN << >> ELSE Front(myCurScope)
          /\ mySubArg' = recs[myCurRec].myIdent
          /\ myErrorArg' = FALSE
          /\ myTypeArg' = IF aNext = 0 THEN myTypeArg ELSE "Sub"
          /\ myNbPar' = IF aNext = 0 THEN myNbPar ELSE myNbPar + 1
          /\ myOneArgPage' = IF aNext = 0 THEN myOneArgPage
                             ELSE NewSlot(myOneArgPage, myMaxArg)
          /\ hist' = Tick([hist EXCEPT
               !.wf = @ /\ myCurRec \notin { FlatList[i] : i \in 1..Len(FlatList) },
               !.nFinal = @ + 1,
               !.nBody = IF hist.head THEN @ + 1 ELSE @,
               !.open = IF @ = << >> THEN @ ELSE Front(@),
               !.pushed = IF aNext = 0 THEN @
                          ELSE [@ EXCEPT ![aNext] = Append(@,
                                  [kind |-> "Sub", by |-> "RecordNewEntity",
                                   bytes |-> ReadText(myOneCharPage,
                                                      recs[myCurRec].myIdent)])]])
          /\ UNCHANGED << capVars, textVars, errVars, myNbHead, myNumSub,
                          myCurrType, myCurrArg, myOneRecPage,
                          theCheck, phase >>

\* ------------------------------------------------------------------ scopes
\* AddNewScope: a new scope containing the current record
AddNewScope ==
  /\ phase = "build"
  /\ Len(myCurScope) < lim.scopes
  /\ myCurScope' = Append(myCurScope, myCurRec)
  /\ hist' = [hist EXCEPT
       !.open = Append(@, [by |-> "AddNewScope", rec |-> myCurRec]),
       !.unmatched = @ + 1]
  /\ UNCHANGED << capVars, recVars, argVars, textVars, errVars, myNbRec,
                  myNbHead, myYaRec, myNumSub, myErrorArg, myCurrType, mySubArg,
                  myTypeArg, myCurrArg, theCheck, phase >>

\* the oldest scope is ended instead of the current one
FinalOfScopeOldest ==
  /\ phase = "build"
  /\ IF myCurScope = << >> THEN Diagnose(ErrNoScope)
     ELSE
       /\ myCurScope' = Tail(myCurScope)
       /\ myCurRec' = Head(myCurScope)
       /\ myYaRec' = IF Head(myCurScope) = 0 THEN 0 ELSE 1
       /\ hist' = [hist EXCEPT !.wf = @ /\ Head(myCurScope) = myCurRec,
                               !.open = Front(@),
                               !.unmatched = IF @ > 0 THEN @ - 1 ELSE 0]
       /\ UNCHANGED << capVars, argVars, textVars, errVars, myNbRec, myNbHead,
                       myNumSub, myErrorArg, myCurrType, mySubArg, myTypeArg,
                       myCurrArg, myFirstRec, myLastRec, myOneRecPage, recs,
                       theCheck, phase >>

\* FinalOfScope: ends the current scope; its record is the current record
\* again.  Without a scope it records a diagnostic and does nothing else.
FinalOfScope ==
  /\ phase = "build"
  /\ IF myCurScope = << >> THEN Diagnose(ErrNoScope)
     ELSE
       /\ myCurScope' = Front(myCurScope)
       /\ myCurRec' = Last(myCurScope)
       /\ myYaRec' = IF Last(myCurScope) = 0 THEN 0 ELSE 1
       /\ hist' = [hist EXCEPT !.wf = @ /\ Last(myCurScope) = myCurRec,
                               !.open = Front(@),
                               !.unmatched = IF @ > 0 THEN @ - 1 ELSE 0]
       /\ UNCHANGED << capVars, argVars, textVars, errVars, myNbRec, myNbHead,
                       myNumSub, myErrorArg, myCurrType, mySubArg, myTypeArg,
                       myCurrArg, myFirstRec, myLastRec, myOneRecPage, recs,
                       theCheck, phase >>

\* the end of the header is noted but the records are not counted
FinalOfHeadKeepsZero ==
  /\ phase = "build"
  /\ ~hist.head
  /\ myCurRec = 0
  /\ hist' = [hist EXCEPT !.head = TRUE]
  /\ UNCHANGED << capVars, recVars, argVars, textVars, errVars, myNbRec, myNbHead,
                  myYaRec, myNumSub, myErrorArg, myCurrType, mySubArg,
                  myTypeArg, myCurrArg, myCurScope, theCheck, phase >>

\* FinalOfHead: the records read so far are those of the header
FinalOfHead ==
  /\ phase = "build"
  /\ ~hist.head
  /\ myCurRec = 0
  /\ myNbHead' = myNbRec
  /\ hist' = [hist EXCEPT !.head = TRUE]
  /\ UNCHANGED << capVars, recVars, argVars, textVars, errVars, myNbRec,
                  myYaRec, myNumSub, myErrorArg, myCurrType, mySubArg,
                  myTypeArg, myCurrArg, myCurScope, theCheck, phase >>

\* --------------------------------------------------------------- read-back
\* GetFileNbR: the counters of the file; reading starts at the first record
GetFileNbRValues == << myNbHead, myNbRec, myOneRecPage.myPage >>

\* the counters are returned and the current record is left where it is
GetFileNbRKeepsCurrent ==
  /\ \/ phase = "build" /\ myCurRec = 0
     \/ phase = "read"
  /\ phase' = "read"
  /\ myCurrArg' = 0
  /\ hist' = Traversal([hist EXCEPT !.reading = 0, !.read = << >>], "GetFileNbR")
  /\ UNCHANGED << capVars, recVars, argVars, textVars, errVars, myNbRec,
                  myNbHead, myYaRec, myNumSub, myErrorArg, myCurrType, mySubArg,
                  myTypeArg, myCurScope, theCheck >>

GetFileNbR ==
  /\ \/ phase = "build" /\ myCurRec = 0
     \/ phase = "read"
  /\ phase' = "read"
  /\ myCurRec' = myFirstRec
  /\ myCurrArg' = 0
  /\ hist' = Traversal([hist EXCEPT !.reading = 0, !.read = << >>], "GetFileNbR")
  /\ UNCHANGED << capVars, argVars, textVars, errVars, myNbRec, myNbHead,
                  myYaRec, myNumSub, myErrorArg, myCurrType, mySubArg,
                  myTypeArg, myFirstRec, myLastRec, myOneRecPage, recs,
                  myCurScope, theCheck >>

\* GetRecordDescription: identifier, type and number of arguments of the
\* current record; its first argument becomes the current argument
GetRecordDescriptionValues ==
  << ReadText(myOneCharPage, recs[myCurRec].myIdent),
     ReadText(myOneCharPage, recs[myCurRec].myType),
     Len(ArgChain(recs, args, myCurRec)) >>

GetRecordDescription ==
  /\ phase = "read"
  /\ myCurRec # 0
  /\ myCurrArg' = recs[myCurRec].myFirst
  /\ hist' = Traversal([hist EXCEPT !.reading = myCurRec, !.read = << >>],
                       "GetRecordDescription")
  /\ UNCHANGED << capVars, recVars, argVars, textVars, errVars, myNbRec,
                  myNbHead, myYaRec, myNumSub, myErrorArg, myCurrType, mySubArg,
                  myTypeArg, myCurScope, theCheck, phase >>

\* GetArgDescription: type and value of the current argument; the next
\* argument of the record becomes the current argument
GetArgDescriptionValues ==
  [kind |-> args[myCurrArg].myType,
   bytes |-> ReadText(myOneCharPage, args[myCurrArg].myValue)]

GetArgDescription ==
  /\ phase = "read"
  /\ myCurrArg # 0
  /\ myCurrArg' = args[myCurrArg].myNext
  /\ hist' = Traversal([hist EXCEPT !.read = Append(@, GetArgDescriptionValues)],
                       "GetArgDescription")
  /\ UNCHANGED << capVars, recVars, argVars, textVars, errVars, myNbRec,
                  myNbHead, myYaRec, myNumSub, myErrorArg, myCurrType, mySubArg,
                  myTypeArg, myCurScope, theCheck, phase >>

\* the record is left but still counts as started
NextRecordKeepsPending ==
  /\ phase \in { "build", "read" }
  /\ myCurRec # 0
  /\ myCurRec' = recs[myCurRec].myNext
  /\ myCurrArg' = 0
  /\ myErrorArg' = FALSE
  /\ hist' = [hist EXCEPT !.reading = 0, !.read = << >>]
  /\ UNCHANGED << capVars, argVars, textVars, errVars, myNbRec, myNbHead,
                  myYaRec, myNumSub, myCurrType, mySubArg, myTypeArg,
                  myFirstRec, myLastRec, myOneRecPage, recs, myCurScope,
                  theCheck, phase >>

\* NextRecord: skips to the next record.  While reading it is the step to
\* the next record of the list; while building it leaves the record being
\* built for the next one (none for a record of the file)
NextRecord ==
  /\ phase \in { "build", "read" }
  /\ myCurRec # 0
  /\ myCurRec' = recs[myCurRec].myNext
  /\ myCurrArg' = 0
  /\ myErrorArg' = FALSE
  /\ myYaRec' = IF recs[myCurRec].myNext = 0 THEN 0 ELSE myYaRec
  /\ hist' = Traversal([hist EXCEPT !.reading = 0, !.read = << >>], "NextRecord")
  /\ UNCHANGED << capVars, argVars, textVars, errVars, myNbRec, myNbHead,
                  myNumSub, myCurrType, mySubArg, myTypeArg, myFirstRec,
                  myLastRec, myOneRecPage, recs, myCurScope, theCheck, phase >>

\* ------------------------------------------------------------------ errors
\* AddError: adds an error message
AddError(theErrorMessage) ==
  /\ Len(errs) < lim.errs
  /\ RecordError(theErrorMessage)
  /\ hist' = [hist EXCEPT !.said = Append(@, theErrorMessage)]
  /\ UNCHANGED << capVars, recVars, argVars, textVars, myNbRec, myNbHead,
                  myYaRec, myNumSub, myErrorArg, myCurrType, mySubArg,
                  myTypeArg, myCurrArg, myCurScope, theCheck, phase >>

\* ErrorHandle: every message is added to the checker as a fail, first to
\* last; the messages stay in the recorder
ErrorHandle ==
  /\ errs # << >>
  /\ Len(theCheck) + Len(errs) <= 2 * lim.errs
  /\ theCheck' = theCheck \o ErrorHandleFails
  /\ UNCHANGED << prog, phase, lim, hist >>

\* ---------------------------------------------------------------- release
\* the counter is left as it was
ClearedCounterKept(theCounter) == theCounter

\* a counter after everything was released
ClearedCounter(theCounter) == 0

\* the pages of records and arguments are released, and the error pages
\* with them
ReleaseRecordsAndErrors ==
  /\ recs' = << >> /\ args' = << >> /\ errs' = << >>
  /\ myFirstError' = 0 /\ myCurError' = 0
  /\ myOneRecPage' = [myPage |-> 0, myUsed |-> 0]
  /\ myOneArgPage' = [myPage |-> 0, myUsed |-> 0]
  /\ myFirstRec' = 0 /\ myCurRec' = 0 /\ myLastRec' = 0 /\ myCurrArg' = 0
  /\ myCurScope' = << >>
  /\ phase' = "released"
  /\ UNCHANGED << capVars, textVars, myNbRec, myNbHead, myNbPar,
                  myYaRec, myNumSub, myErrorArg, myCurrType, mySubArg,
                  myTypeArg, theCheck, hist >>

\* ClearRecorder(1): the pages of records and arguments are released
ReleaseRecords ==
  /\ recs' = << >> /\ args' = << >>
  /\ myOneRecPage' = [myPage |-> 0, myUsed |-> 0]
  /\ myOneArgPage' = [myPage |-> 0, myUsed |-> 0]
  /\ myFirstRec' = 0 /\ myCurRec' = 0 /\ myLastRec' = 0 /\ myCurrArg' = 0
  /\ myCurScope' = << >>
  /\ phase' = "released"
  /\ UNCHANGED << capVars, textVars, errVars, myNbRec, myNbHead, myNbPar,
                  myYaRec, myNumSub, myErrorArg, myCurrType, mySubArg,
                  myTypeArg, theCheck, hist >>

\* ClearRecorder: 1 releases the pages of records and arguments, 2 the
\* pages of characters, 3 everything: the recorder is as constructed (and
\* the caller takes a new Interface_Check for the next stream)
ClearRecorder(theMode) ==
  /\ theMode \in 1..3
  /\ IF theMode = 1 THEN ReleaseRecords
     ELSE IF theMode = 2 THEN
       /\ myOneCharPage' = << >>
       /\ myResText' = NoText /\ myCurrType' = NoText /\ mySubArg' = NoText
       /\ phase' = "released"
       /\ hist' = [hist EXCEPT !.interned = << >>]
       /\ UNCHANGED << capVars, recVars, argVars, errVars, myNbRec, myNbHead,
                       myYaRec, myNumSub, myErrorArg, myTypeArg, myCurrArg,
                       myCurScope, theCheck >>
     ELSE
       /\ myNbRec' = ClearedCounter(myNbRec)
       /\ myNbHead' = ClearedCounter(myNbHead)
       /\ myNbPar' = ClearedCounter(myNbPar)
       /\ myYaRec' = 0 /\ myNumSub' = 0 /\ myErrorArg' = FALSE
       /\ myResText' = NoText /\ myCurrType' = NoText /\ mySubArg' = NoText
       /\ myTypeArg' = "Text"
       /\ myCurrArg' = 0 /\ myFirstRec' = 0 /\ myCurRec' = 0 /\ myLastRec' = 0
       /\ myCurScope' = << >>
       /\ myFirstError' = 0 /\ myCurError' = 0
       /\ myOneRecPage' = [myPage |-> 0, myUsed |-> 0]
       /\ myOneArgPage' = [myPage |-> 0, myUsed |-> 0]
       /\ myOneCharPage' = << >>
       /\ recs' = << >> /\ args' = << >> /\ errs' = << >>
       /\ theCheck' = << >>
       /\ phase' = "build"
       /\ hist' = [HistInit EXCEPT !.torn = TRUE]
       /\ UNCHANGED capVars

\* ------------------------------------------------------------------- Next
\* the calls of the lexer and the parser that build the graph
TextCalls == \E t \in lim.lexemes : CreateNewText(t)

RecordCalls ==
  \/ RecordIdent
  \/ RecordType
  \/ RecordListStart
  \/ RecordNewEntity
  \/ NextRecord

ArgCalls ==
  \/ \E k \in lim.kinds : SetTypeArg(k)
  \/ CreateNewArg
  \/ CreateErrorArg
  \/ PrepareNewArg

ScopeCalls ==
  \/ AddNewScope
  \/ FinalOfScope
  \/ FinalOfHead

\* the calls that read the graph back
ReadCalls ==
  \/ GetFileNbR
  \/ GetRecordDescription
  \/ GetArgDescription

ErrorCalls ==
  \/ \E m \in lim.messages : AddError(m)
  \/ ErrorHandle

\* every operation of the class
NextAll ==
  \/ TextCalls
  \/ RecordCalls
  \/ ArgCalls
  \/ ScopeCalls
  \/ ReadCalls
  \/ ErrorCalls
  \/ \E mode \in 1..3 : ClearRecorder(mode)

\* the records: their list, nesting, scopes and counters
Next ==
  \/ TextCalls
  \/ RecordCalls
  \/ ScopeCalls
  \/ ReadCalls
  \/ ClearRecorder(3)

\* the arguments of the records and their read-back, record by record
NextArgs ==
  \/ TextCalls
  \/ RecordIdent
  \/ RecordListStart
  \/ RecordNewEntity
  \/ ArgCalls
  \/ ReadCalls
  \/ phase = "read" /\ NextRecord

\* the error messages, with the calls that record one themselves and the
\* releases
NextErrs ==
  \/ ErrorCalls
  \/ TextCalls
  \/ RecordIdent
  \/ RecordNewEntity
  \/ FinalOfScope
  \/ \E mode \in 1..3 : ClearRecorder(mode)

\* the text values, with the calls that store or release text
NextText ==
  \/ TextCalls
  \/ RecordIdent
  \/ RecordListStart
  \/ \E mode \in 2..3 : ClearRecorder(mode)

\* the next call of the script is theOp
ScriptCall(theOp) ==
  /\ hist.calls < Len(lim.script)
  /\ lim.script[hist.calls + 1].op = theOp

ScriptArg == lim.script[hist.calls + 1].arg

ScriptDone == lim.script # << >> /\ hist.calls = Len(lim.script)

\* the calls of the script in order, then the read-back of the records
NextScenario ==
  \/ ScriptCall("CreateNewText") /\ CreateNewText(ScriptArg)
  \/ ScriptCall("RecordIdent") /\ RecordIdent
  \/ ScriptCall("RecordType") /\ RecordType
  \/ ScriptCall("RecordListStart") /\ RecordListStart
  \/ ScriptCall("SetTypeArg") /\ SetTypeArg(ScriptArg)
  \/ ScriptCall("CreateNewArg") /\ CreateNewArg
  \/ ScriptCall("RecordNewEntity") /\ RecordNewEntity
  \/ ScriptDone /\ ReadCalls
  \/ ScriptDone /\ phase = "read" /\ NextRecord

\* the calls that build records, with NextRecord to abandon one
NextSkip ==
  \/ TextCalls
  \/ RecordCalls
  \/ CreateNewArg
  \/ CreateErrorArg
  \/ PrepareNewArg
  \/ AddNewScope
  \/ FinalOfScope

\* the caller goes on with its other traversal
OtherReader ==
  /\ phase = "read"
  /\ \E t \in lim.readers \ { hist.who } : hist' = [hist EXCEPT !.who = t]
  /\ UNCHANGED << prog, theCheck, phase, lim >>

\* records are built, then read back by the traversals in any interleaving
NextRead ==
  \/ TextCalls
  \/ RecordIdent
  \/ RecordListStart
  \/ CreateNewArg
  \/ RecordNewEntity
  \/ ReadCalls
  \/ phase = "read" /\ NextRecord
  \/ OtherReader

SpecRead == InitRead /\ [][NextRead]_vars

\* the calls that open and close scopes and sub-records; the caller stops
\* adding records at ScopeRecs records
NextScope ==
  \/ TextCalls
  \/ RecordIdent
  \/ RecordListStart
  \/ myNbRec < ScopeRecs /\ RecordNewEntity
  \/ AddNewScope
  \/ FinalOfScope

SpecScope == InitScope /\ [][NextScope]_vars

\* every call of the lexer and the parser
NextCount ==
  \/ TextCalls
  \/ RecordCalls
  \/ ArgCalls
  \/ AddNewScope
  \/ FinalOfScope

SpecCount == InitCount /\ [][NextCount]_vars

\* the calls that take room in a page
NextPages ==
  \/ TextCalls
  \/ RecordIdent
  \/ CreateNewArg
  \/ RecordNewEntity
  \/ \E m \in lim.messages : AddError(m)

SpecPages == InitPages /\ [][NextPages]_vars

SpecSkip == InitSkip /\ [][NextSkip]_vars

Spec == Init /\ [][Next]_vars

SpecScenario == InitScenario /\ [][NextScenario]_vars

SpecAll == InitAll /\ [][NextAll]_vars

SpecArgs == InitArgs /\ [][NextArgs]_vars

SpecErrs == InitErrs /\ [][NextErrs]_vars

SpecText == InitText /\ [][NextText]_vars

\* ================================================================ properties
\* position of theRec in the list, 0 when it is not in it
PosIn(theList, theRec) ==
  IF \E i \in 1..Len(theList) : theList[i] = theRec
  THEN CHOOSE i \in 1..Len(theList) : theList[i] = theRec
  ELSE 0

Graph == phase \in { "build", "read" }

\* C1: as long as every call followed the protocol, the list holds as many
\* records as RecordNewEntity was called, header and body together; the
\* counters GetFileNbR returns agree with it, and once the header is closed
\* total minus header is the number of records added after FinalOfHead.
RecordCountInv ==
  (Graph /\ hist.wf) =>
     /\ Len(FlatList) = hist.nFinal
     /\ GetFileNbRValues[2] = hist.nFinal
     /\ GetFileNbRValues[1] <= GetFileNbRValues[2]
     /\ hist.head =>
          /\ GetFileNbRValues[2] - GetFileNbRValues[1] = hist.nBody
          /\ GetFileNbRValues[1] = hist.nFinal - hist.nBody

\* three records in the list, a sub-record among them, one of the header
\* and two of the body
RecordCountWitness ==
  /\ Graph /\ hist.wf /\ hist.head
  /\ Len(FlatList) = 3 /\ myNbHead = 1 /\ hist.nBody = 2
  /\ \E r \in 1..Len(recs) : hist.spawner[r] # 0

\* C2: a sub-record is created with the record it was opened in as its
\* next, and in the list every sub-record stands before that record, at any
\* depth of nesting (for calls that follow the protocol: a record that was
\* added to the list is not made current again).
SubRecordFirst ==
  (Graph /\ hist.wf) =>
    \A r \in 1..Len(recs) :
      hist.spawner[r] # 0 =>
        /\ PosIn(FlatList, r) = 0 => recs[r].myNext = hist.spawner[r]
        /\ (PosIn(FlatList, hist.spawner[r]) # 0 /\ PosIn(FlatList, r) # 0) =>
             PosIn(FlatList, r) < PosIn(FlatList, hist.spawner[r])

\* a record, its sub-record and the sub-record of that one, all in the list
SubRecordFirstWitness ==
  /\ Graph /\ hist.wf /\ Len(FlatList) = 3
  /\ \E a, b, c \in 1..Len(recs) :
       /\ hist.spawner[a] = 0 /\ hist.spawner[b] = a /\ hist.spawner[c] = b
       /\ FlatList = << c, b, a >>

\* C3: the read-back of a record returns its arguments in the order they
\* were created on it: as many as were created, each with the kind it was
\* created with, and the arguments of CreateNewArg with the text they were
\* created with (for calls that follow the protocol: no error token updates
\* an argument of CreateNewArg).  The argument RecordNewEntity adds for a
\* finished sub-record stands where the sub-record was finished, between
\* the arguments created before and after it.
ArgOrder ==
  (phase = "read" /\ hist.reading # 0) =>
    LET made == hist.pushed[hist.reading]
    IN /\ GetRecordDescriptionValues[3] = Len(made)
       /\ Len(hist.read) <= Len(made)
       /\ myCurrArg = 0 => Len(hist.read) = Len(made)
       /\ \A i \in 1..Len(hist.read) :
            /\ hist.read[i].kind = made[i].kind
            /\ (hist.wf /\ made[i].by = "CreateNewArg") =>
                 hist.read[i].bytes = made[i].bytes

\* a record read back in full: an argument, the argument of a sub-record
\* finished after it, and an argument with another text created after that;
\* the sub-record has an argument of its own
ArgOrderWitness ==
  /\ phase = "read" /\ hist.wf /\ hist.reading # 0 /\ myCurrArg = 0
  /\ Len(hist.read) = 3
  /\ hist.read[1].kind = "Ident" /\ hist.read[2].kind = "Sub"
  /\ hist.read[3].kind = "Ident"
  /\ hist.read[1].bytes # hist.read[3].bytes
  /\ \E r \in 1..Len(recs) :
       /\ hist.spawner[r] = hist.reading
       /\ Len(hist.pushed[r]) = 1
       /\ hist.read[2].bytes = ReadText(myOneCharPage, recs[r].myIdent)

\* the text of the last argument of theRec
LastArgText(rs, as, pages, theRec) ==
  ReadText(pages, as[rs[theRec].myLast].myValue)

\* C4: a run of error tokens at one argument position gives one argument.
\* CreateErrorArg outside the error argument mode adds one argument of kind
\* Misc behind the others and enters the mode; in the mode it adds nothing
\* and only sets the text of the last argument to the current text value;
\* storing a text leaves the mode as it is, and PrepareNewArg leaves the
\* mode, so that the next error token adds an argument again.
ErrorArgOnce ==
  [][ /\ (CreateErrorArg /\ myCurRec # 0 /\ myResText # NoText) =>
           LET before == ArgChain(recs, args, myCurRec)
               after  == ArgChain(recs', args', myCurRec)
           IN /\ myErrorArg'
              /\ myCurRec' = myCurRec
              /\ LastArgText(recs', args', myOneCharPage', myCurRec)
                   = ReadText(myOneCharPage, myResText)
              /\ IF myErrorArg /\ before # << >>
                 THEN /\ after = before
                      /\ myNbPar' = myNbPar
                      /\ \A a \in 1..Len(args) :
                           /\ args'[a].myType = args[a].myType
                           /\ a # Last(before) => args'[a] = args[a]
                      /\ hist.wf' => args[Last(before)].myType = "Misc"
                 ELSE /\ after = Append(before, Len(args) + 1)
                      /\ myNbPar' = myNbPar + 1
                      /\ args'[Last(after)].myType = "Misc"
                      /\ \A a \in 1..Len(args) :
                           /\ args'[a].myType = args[a].myType
                           /\ args'[a].myValue = args[a].myValue
      /\ PrepareNewArg => ~myErrorArg'
      /\ (\E t \in lim.lexemes : CreateNewText(t)) =>
           (myErrorArg' = myErrorArg /\ args' = args /\ recs' = recs)
    ]_vars

\* a record with two arguments of error tokens, the second one created
\* after the mode was left; the text of one of them is no longer the text it was
\* created with
ErrorArgOnceWitness ==
  /\ phase = "build" /\ hist.wf /\ myCurRec # 0 /\ myErrorArg
  /\ LET chain == ArgChain(recs, args, myCurRec)
         made  == hist.pushed[myCurRec]
     IN /\ Len(chain) = 2 /\ Len(made) = 2
        /\ \A i \in 1..2 : args[chain[i]].myType = "Misc"
                             /\ made[i].by = "CreateErrorArg"
        /\ \E i \in 1..2 :
             ReadText(myOneCharPage, args[chain[i]].myValue) # made[i].bytes

\* a record as the read-back shows it: identifier, type (none when it has
\* no type) and arguments
RecordView(theRec) ==
  LET chain == ArgChain(recs, args, theRec)
  IN [ident |-> ReadText(myOneCharPage, recs[theRec].myIdent),
      type  |-> IF recs[theRec].myType = NoText THEN << >>
                ELSE << ReadText(myOneCharPage, recs[theRec].myType) >>,
      args  |-> [i \in 1..Len(chain) |->
                  [kind  |-> args[chain[i]].myType,
                   bytes |-> ReadText(myOneCharPage, args[chain[i]].myValue)]]]

\* the record "#123" of the example: its arguments are the sub-list, "#125"
\* and "#125"
OuterRecordOfExample(theRec, theSub) ==
  /\ RecordView(theRec).ident = Text123
  /\ RecordView(theRec).type = << TextAdvancedFace >>
  /\ RecordView(theRec).args =
       << [kind |-> "Sub", bytes |-> RecordView(theSub).ident],
          [kind |-> "Ident", bytes |-> Text125],
          [kind |-> "Ident", bytes |-> Text125] >>

\* C5 as stated: after the calls of the example the list holds two records,
\* first the sub-record, WITHOUT A TYPE and with the one argument "#124",
\* then "#123"/"ADVANCED_FACE" with the arguments sub-list, "#125", "#125".
AdvancedFaceUntypedSub ==
  (ScriptDone /\ Graph) =>
    /\ Len(FlatList) = 2
    /\ RecordView(FlatList[1]).type = << >>
    /\ RecordView(FlatList[1]).args = << [kind |-> "Ident", bytes |-> Text124] >>
    /\ OuterRecordOfExample(FlatList[2], FlatList[1])

\* C5 (amended): after the calls of the example the list holds two records,
\* first the sub-record, which has the type of the last record read,
\* "ADVANCED_FACE", and the one argument "#124", then
\* "#123"/"ADVANCED_FACE" with the arguments sub-list, "#125", "#125".
AdvancedFace ==
  (ScriptDone /\ Graph) =>
    /\ Len(FlatList) = 2
    /\ RecordView(FlatList[1]).type = << TextAdvancedFace >>
    /\ RecordView(FlatList[1]).args = << [kind |-> "Ident", bytes |-> Text124] >>
    /\ OuterRecordOfExample(FlatList[2], FlatList[1])

\* the example was run and the three arguments of "#123" were read back
AdvancedFaceWitness ==
  /\ ScriptDone /\ phase = "read" /\ hist.wf
  /\ Len(FlatList) = 2 /\ hist.reading = FlatList[2]
  /\ myCurrArg = 0 /\ Len(hist.read) = 3
  /\ hist.read = RecordView(FlatList[2]).args

\* the recorder holds nothing: no record, no argument, no text, no scope
EmptyRecorder ==
  /\ GetFileNbRValues = << 0, 0, 0 >>
  /\ myNbRec = 0 /\ myNbHead = 0 /\ myNbPar = 0
  /\ FlatList = << >> /\ recs = << >> /\ args = << >>
  /\ myFirstRec = 0 /\ myLastRec = 0 /\ myCurRec = 0 /\ myCurrArg = 0
  /\ myCurScope = << >>
  /\ myYaRec = 0 /\ myNumSub = 0 /\ ~myErrorArg
  /\ myOneCharPage = << >> /\ myResText = NoText
  /\ phase = "build"

\* C6: ClearRecorder(3), from any state, leaves the recorder empty as it
\* was constructed: the counters of records, header records and arguments
\* are 0, the list is empty, there is no current record, no scope and no
\* record being built.  The recorder is used again after it: RecordIdent
\* with a text value creates a record and records no diagnostic, and the
\* list holds the records added since, and only them.
FullClear ==
  /\ [][ClearRecorder(3) => EmptyRecorder']_vars
  /\ [][(hist.torn /\ RecordIdent /\ myYaRec = 0 /\ myResText # NoText) =>
          /\ myCurRec' = Len(recs) + 1
          /\ ReadText(myOneCharPage', recs'[myCurRec'].myIdent)
               = ReadText(myOneCharPage, myResText)
          /\ myYaRec' = 1
          /\ errs' = errs]_vars
  /\ [](( hist.torn /\ hist.wf /\ Graph) =>
          /\ Len(FlatList) = hist.nFinal
          /\ myNbRec = hist.nFinal
          /\ \A i \in 1..Len(FlatList) : FlatList[i] \in 1..Len(recs))

\* a record was added to the list, everything was released, and a record
\* created after that is alone in the list
FullClearWitness ==
  /\ hist.torn /\ hist.wf /\ phase = "build"
  /\ FlatList = << 1 >> /\ myNbRec = 1 /\ hist.nFinal = 1
  /\ Len(recs) = 1

\* C7: the error messages are kept in the order they were recorded;
\* ErrorHandle adds them all to the checker, each once and in that order,
\* and changes nothing in the recorder, so that a second ErrorHandle adds
\* the same messages again.
ErrorRoundTrip ==
  /\ [](ErrorHandleFails = hist.said)
  /\ [][ErrorHandle =>
          /\ theCheck' = theCheck \o hist.said
          /\ ErrorHandleFails' = ErrorHandleFails
          /\ UNCHANGED << errVars, hist >>]_vars

\* two different messages were recorded and handed over twice
ErrorRoundTripWitness ==
  /\ Len(hist.said) = 2 /\ hist.said[1] # hist.said[2]
  /\ theCheck = hist.said \o hist.said

\* C8: GetLastError returns the message recorded last, whatever was called
\* since: texts stored, records built, ErrorHandle, ClearRecorder(1) and
\* ClearRecorder(2).
LastErrorKept ==
  hist.said # << >> => GetLastError = << Last(hist.said) >>

\* three messages were recorded, the last unlike the first; the messages
\* were handed to the checker and the pages of the records or of the
\* characters were released since
LastErrorKeptWitness ==
  /\ Len(hist.said) = 3 /\ hist.said[1] # hist.said[3]
  /\ GetLastError = << hist.said[3] >>
  /\ phase = "released"
  /\ theCheck = hist.said

\* C9: every text stored reads back as the bytes given, from a slice that
\* lies inside one page, whatever was stored after it; no page holds more
\* than its capacity.
TextRoundTrip ==
  /\ \A i \in 1..Len(hist.interned) :
       LET e == hist.interned[i]
       IN /\ e.text.page \in 1..Len(myOneCharPage)
          /\ e.text.off + e.text.len <= Len(myOneCharPage[e.text.page].data)
          /\ ReadText(myOneCharPage, e.text) = e.bytes
  /\ \A p \in 1..Len(myOneCharPage) :
       /\ Len(myOneCharPage[p].data) <= myOneCharPage[p].cap
       /\ myOneCharPage[p].cap >= myMaxChar

\* a text longer than a page, stored whole in a page of its own while the
\* page before still had room, and another text stored after it
TextRoundTripWitness ==
  /\ Len(hist.interned) = 3
  /\ LET e == hist.interned[2]
     IN /\ e.text.page = 2 /\ e.text.off = 0
        /\ e.text.len > myMaxChar
        /\ Len(myOneCharPage[1].data) \in 1..(myOneCharPage[1].cap - 1)
        /\ ReadText(myOneCharPage, e.text) = e.bytes
  /\ hist.interned[3].text.len > 0

\* C10: FinalOfScope without a scope records one diagnostic and changes
\* nothing else: the list, the counters, the (empty) chain of scopes and
\* the current record are as before; the recorder is at top level.
FinalOfScopeNoScope ==
  [][(FinalOfScope /\ myCurScope = << >>) =>
       /\ ErrorHandleFails' = Append(ErrorHandleFails, ErrNoScope)
       /\ GetLastError' = << ErrNoScope >>
       /\ FlatList' = FlatList
       /\ GetFileNbRValues' = GetFileNbRValues
       /\ myNbPar' = myNbPar
       /\ myCurScope' = << >>
       /\ myCurRec' = myCurRec /\ myYaRec' = myYaRec
       /\ UNCHANGED << recVars, argVars, textVars >>
       /\ hist.wf => (myCurRec' = 0 \/ hist.spawner[myCurRec'] = 0)]_vars

\* the diagnostic was recorded while a record was being built, and that
\* record was added to the list afterwards
FinalOfScopeNoScopeWitness ==
  /\ phase = "build" /\ myCurScope = << >>
  /\ hist.said = << ErrNoScope >>
  /\ GetLastError = << ErrNoScope >>
  /\ Len(FlatList) = 1 /\ myNbRec = 1 /\ myCurRec = 0


\* the records as the read-back shows them, by record
RecordViews == [r \in 1..Len(recs) |-> RecordView(r)]

IsPrefix(thePrefix, theList) ==
  /\ Len(thePrefix) <= Len(theList)
  /\ \A i \in 1..Len(thePrefix) : theList[i] = thePrefix[i]

InList(theRec) == \E i \in 1..Len(FlatList) : FlatList[i] = theRec

\* the record being built and the records it is nested in: the current
\* record and the records that follow it by myNext
BeingBuilt == ListFrom(recs, myCurRec, 0, Len(recs))

\* the records of the list keep their place in it and what is read of them
ListKept ==
  /\ IsPrefix(FlatList, FlatList')
  /\ \A i \in 1..Len(FlatList) :
       RecordViews'[FlatList[i]] = RecordViews[FlatList[i]]

\* RecordIdent is accepted: it creates a record and records no diagnostic
RecordIdentAccepted ==
  /\ myCurRec' = Len(recs) + 1 /\ Len(recs') = Len(recs) + 1
  /\ myYaRec' = 1
  /\ errs' = errs

TextsReadable(thePages) ==
  \A i \in 1..Len(hist.interned) :
    ReadText(thePages, hist.interned[i].text) = hist.interned[i].bytes

\* C13: ClearRecorder(1) releases the pages of records and arguments and
\* nothing of the characters pages: every text stored still reads back.
\* ClearRecorder(2) releases the pages of characters and leaves records and
\* arguments.  Neither changes the error pages: after them ErrorHandle
\* passes every message recorded, in order, and GetLastError returns the
\* last one.
PartialClear ==
  /\ [][ClearRecorder(1) =>
          /\ recs' = << >> /\ args' = << >>
          /\ UNCHANGED << textVars, errVars >>
          /\ TextsReadable(myOneCharPage')
          /\ ErrorHandleFails' = ErrorHandleFails
          /\ GetLastError' = GetLastError]_vars
  /\ [][ClearRecorder(2) =>
          /\ myOneCharPage' = << >>
          /\ UNCHANGED << recVars, argVars, errVars >>
          /\ ErrorHandleFails' = ErrorHandleFails
          /\ GetLastError' = GetLastError]_vars
  /\ [](phase = "released" =>
          /\ ErrorHandleFails = hist.said
          /\ hist.said # << >> => GetLastError = << Last(hist.said) >>)

\* a record was built from a text and two messages were recorded; the pages
\* of records were released, the text and the messages are still there
PartialClearWitness ==
  /\ phase = "released"
  /\ recs = << >> /\ myNbRec = 1
  /\ hist.interned # << >> /\ TextsReadable(myOneCharPage)
  /\ myOneCharPage # << >>
  /\ Len(hist.said) = 2 /\ hist.said[1] # hist.said[2]
  /\ ErrorHandleFails = hist.said
  /\ GetLastError = << hist.said[2] >>


\* a read-back call was made
ReadBackStep ==
  \/ GetFileNbR
  \/ GetRecordDescription
  \/ GetArgDescription
  \/ phase = "read" /\ NextRecord

\* no read-back call changes the list, the chains of arguments, the counters
\* or what is read of a record
ReadBackKeeps ==
  /\ UNCHANGED << recs, args, myFirstRec, myLastRec, myNbRec, myNbHead, myNbPar,
                  myOneRecPage, myOneArgPage, myOneCharPage >>
  /\ FlatList' = FlatList
  /\ RecordViews' = RecordViews

\* the traversal went through the records one by one, GetRecordDescription
\* then NextRecord, and its next GetRecordDescription finds no record
Finished(theReader) ==
  /\ phase = "read" /\ hist.who = theReader
  /\ hist.step[theReader] = "record"
  /\ myCurRec = 0

\* C14 as stated: each of two traversals, HOWEVER INTERLEAVED, is described
\* every record of the list once, first to last, and no read-back call
\* changes the list, the chains or the counters.
InterleavedTraversals ==
  /\ [](\A t \in lim.readers :
          (hist.wf /\ Finished(t)) => hist.seen[t] = FlatList)
  /\ [][ReadBackStep => ReadBackKeeps]_vars

\* C14 (amended): the recorder has one current record and one current
\* argument, which every read-back call reads and moves, whichever
\* traversal makes it.  A traversal that no other made a call in between is
\* described every record of the list once, first to last, with the
\* arguments of each in order; no read-back call changes the list, the
\* chains or the counters.
SingleTraversal ==
  /\ [](\A t \in lim.readers :
          (hist.wf /\ Finished(t) /\ ~hist.mixed[t]) => hist.seen[t] = FlatList)
  /\ [][ReadBackStep => ReadBackKeeps]_vars
  /\ [][GetRecordDescription =>
          /\ hist'.step[hist.who] = "next" => Last(hist'.seen[hist.who]) = myCurRec
          /\ myCurRec' = myCurRec]_vars
  /\ [][(phase = "read" /\ NextRecord) => myCurRec' = recs[myCurRec].myNext]_vars
  /\ []((phase = "read" /\ hist.reading # 0 /\ myCurrArg = 0
           /\ hist.step[hist.who] = "next" /\ ~hist.mixed[hist.who])
          => hist.read = RecordView(hist.reading).args)

\* a list of three records, a sub-record among them, was read by one
\* traversal to its end after the other traversal had read a part of it
SingleTraversalWitness ==
  /\ hist.wf /\ Finished("b") /\ ~hist.mixed["b"]
  /\ Len(FlatList) = 3 /\ hist.seen["b"] = FlatList
  /\ hist.spawner[FlatList[1]] # 0
  /\ Len(hist.seen["a"]) = 1 /\ hist.mixed["a"]


\* C15: RecordNewEntity on a sub-record makes the record it was opened in
\* the current, pending record again and adds exactly one argument to it,
\* behind the arguments it had when the sub-list started: a sub-list
\* argument whose value is the identifier of the sub-record; no other
\* record changes.  RecordNewEntity on a record of the file leaves no
\* current record and changes no argument.
SubRecordFinalized ==
  [][(RecordNewEntity /\ myCurRec # 0) =>
       LET aSub == myCurRec
           aSpawner == hist.spawner[myCurRec]
       IN IF aSpawner # 0
          THEN /\ myCurRec' = aSpawner /\ myYaRec' = 1
               /\ RecordViews'[aSpawner] =
                    [RecordViews[aSpawner] EXCEPT !.args =
                       Append(@, [kind |-> "Sub", bytes |-> RecordViews[aSub].ident])]
               /\ \A r \in (1..Len(recs)) \ { aSpawner } :
                    RecordViews'[r] = RecordViews[r]
               /\ myNbPar' = myNbPar + 1
               /\ Len(args') = Len(args) + 1
          ELSE /\ myCurRec' = 0 /\ myYaRec' = 0
               /\ RecordViews' = RecordViews
               /\ myNbPar' = myNbPar /\ args' = args]_vars

\* a sub-list was opened behind the first argument of a record and closed
\* again; the record got its sub-list argument second and a third argument
\* after it, and was added to the list itself
SubRecordFinalizedWitness ==
  /\ phase = "build" /\ hist.wf /\ myCurRec = 0
  /\ FlatList = << 2, 1 >> /\ hist.spawner = << 0, 1 >>
  /\ Len(RecordView(1).args) = 3
  /\ RecordView(1).args[1].kind = "Ident"
  /\ RecordView(1).args[2] = [kind |-> "Sub", bytes |-> RecordView(2).ident]
  /\ RecordView(1).args[3].kind = "Ident"
  /\ Len(RecordView(2).args) = 1


\* the records of the scopes opened and not closed, oldest first
OpenScopes == [i \in 1..Len(hist.open) |-> hist.open[i].rec]

Captured(theMessage) ==
  /\ ErrorHandleFails' = Append(ErrorHandleFails, theMessage)
  /\ GetLastError' = << theMessage >>
  /\ UNCHANGED << recVars, argVars, myNbRec, myNbHead, myYaRec, myCurScope >>

NbArgs(rs, as, theRec) == Len(ArgChain(rs, as, theRec))

\* the number of arguments read and the number of arguments of every
\* record are as before
ArgsKept ==
  /\ myNbPar' = myNbPar
  /\ Len(args') = Len(args)
  /\ \A r \in 1..Len(recs) : NbArgs(recs', args', r) = NbArgs(recs, args, r)

\* theRec has one argument more, the other records have as many as before,
\* and the number of arguments read is one more
OneMore(theRec) ==
  /\ myNbPar' = myNbPar + 1
  /\ Len(args') = Len(args) + 1
  /\ NbArgs(recs', args', theRec) = NbArgs(recs, args, theRec) + 1
  /\ \A r \in (1..Len(recs)) \ { theRec } :
       NbArgs(recs', args', r) = NbArgs(recs, args, r)

\* C18 as stated: EVERY CALL BUT the creation of an argument (CreateNewArg,
\* CreateErrorArg for an error token) leaves the number of arguments read
\* and the number of arguments of every record as they were, and
\* CreateNewArg adds exactly one argument.
OnlyCreateNewArgCounts ==
  /\ [][(~CreateNewArg /\ ~CreateErrorArg) => ArgsKept]_vars
  /\ [][(CreateNewArg /\ myCurRec # 0 /\ ArgValue(myTypeArg) # NoText) =>
          OneMore(myCurRec)]_vars

\* C18 (amended): the number of arguments grows by CreateNewArg, by
\* CreateErrorArg for the first error token of a sequence, and by
\* RecordNewEntity on a sub-record, which adds the sub-list argument to the
\* record the sub-list was opened in; each adds exactly one argument to one
\* record.  Every other call leaves the number of arguments read and the
\* number of arguments of every record as they were.  The number of
\* arguments read is the number of arguments of all records together.
ArgCountPaths ==
  /\ [][(~CreateNewArg /\ ~CreateErrorArg
           /\ ~(RecordNewEntity /\ myCurRec # 0 /\ recs[myCurRec].myNext # 0))
          => ArgsKept]_vars
  /\ [][(CreateNewArg /\ myCurRec # 0 /\ ArgValue(myTypeArg) # NoText) =>
          OneMore(myCurRec)]_vars
  /\ [][(RecordNewEntity /\ myCurRec # 0 /\ recs[myCurRec].myNext # 0) =>
          OneMore(recs[myCurRec].myNext)]_vars
  /\ [][(CreateErrorArg /\ myCurRec # 0 /\ myResText # NoText) =>
          IF ErrorArgIsNew(myErrorArg, recs[myCurRec].myLast)
          THEN OneMore(myCurRec) ELSE ArgsKept]_vars
  /\ [](phase = "build" =>
          /\ myNbPar = Len(args)
          /\ UNION { { ArgChain(recs, args, r)[i] : i \in 1..NbArgs(recs, args, r) }
                     : r \in 1..Len(recs) } = 1..Len(args))

\* record 1 has three arguments: one created by CreateNewArg, the sub-list
\* argument added when its sub-record was finished, and an error argument
ArgCountPathsWitness ==
  /\ phase = "build" /\ myNbPar = 3 /\ Len(recs) = 2
  /\ hist.spawner = << 0, 1 >>
  /\ Len(hist.pushed[1]) = 3
  /\ hist.pushed[1][1].by = "CreateNewArg"
  /\ hist.pushed[1][2].by = "RecordNewEntity"
  /\ hist.pushed[1][3].by = "CreateErrorArg"
  /\ NbArgs(recs, args, 1) = 3 /\ NbArgs(recs, args, 2) = 0
  /\ InList(2) /\ myErrorArg


\* a pool of pages of capacity theMax that holds theCount elements: the
\* cursor of the current page is within the page, and the pages before it
\* are full
PoolHolds(thePool, theMax, theCount) ==
  /\ thePool.myUsed <= theMax
  /\ thePool.myPage = 0 => (thePool.myUsed = 0 /\ theCount = 0)
  /\ thePool.myPage > 0 =>
       (thePool.myUsed >= 1 /\ (thePool.myPage - 1) * theMax + thePool.myUsed = theCount)

\* the pool after one more element: in the current page when it has room,
\* in the first slot of a new page when it is full
PoolGrown(thePool, theMax) ==
  IF thePool.myPage = 0 \/ thePool.myUsed = theMax
  THEN [myPage |-> thePool.myPage + 1, myUsed |-> 1]
  ELSE [myPage |-> thePool.myPage, myUsed |-> thePool.myUsed + 1]

\* what was stored before is as it was: the records and the arguments they
\* had as the read-back shows them, the texts, the messages
StoredKept ==
  /\ \A r \in 1..Len(recs) :
       /\ RecordViews'[r].ident = RecordViews[r].ident
       /\ RecordViews'[r].type = RecordViews[r].type
       /\ IsPrefix(RecordViews[r].args, RecordViews'[r].args)
  /\ \A i \in 1..Len(args) :
       /\ args'[i].myType = args[i].myType
       /\ ReadText(myOneCharPage', args'[i].myValue)
            = ReadText(myOneCharPage, args[i].myValue)
  /\ \A p \in 1..(Len(myOneCharPage) - 1) : myOneCharPage'[p] = myOneCharPage[p]
  /\ \A i \in 1..Len(hist.interned) :
       ReadText(myOneCharPage', hist.interned[i].text) = hist.interned[i].bytes
  /\ \A i \in 1..Len(errs) : errs'[i].myText = errs[i].myText

HeadCountFixed ==
  /\ [](myNbHead <= myNbRec /\ (~hist.head => myNbHead = 0))
  /\ [][FinalOfHead =>
          /\ myNbHead' = myNbRec /\ myNbRec' = myNbRec
          /\ hist.wf => myNbHead' = Len(FlatList)
          /\ FlatList' = FlatList]_vars
  /\ [][(hist.head /\ ~ClearRecorder(3)) => myNbHead' = myNbHead]_vars
  /\ [][(hist.head /\ RecordNewEntity /\ myCurRec # 0) =>
          /\ myNbRec' = myNbRec + 1
          /\ myNbHead' = myNbHead
          /\ GetFileNbRValues'[2] - GetFileNbRValues'[1]
               = GetFileNbRValues[2] - GetFileNbRValues[1] + 1]_vars
  /\ [][ClearRecorder(3) => (myNbHead' = 0 /\ myNbRec' = 0)]_vars

\* two records were added, FinalOfHead was called, a third record was
\* added, and the counters were read: two header records of three
HeadCountFixedWitness ==
  /\ phase = "read" /\ hist.head
  /\ GetFileNbRValues[1] = 2 /\ GetFileNbRValues[2] = 3
  /\ hist.nBody = 1 /\ Len(FlatList) = 3

====
